---- MODULE Spec2Model ----
(***************************************************************************)
(* csvtolite (src/src/main.rs): import of delimited text files into an     *)
(* SQLite store.  One run of import_csv over a list of files: for each     *)
(* file load_file inspects the target table (schema), probes the file      *)
(* (detect_file_schema), reconciles the two schemas (create_table or the   *)
(* positional comparison) and loads the records inside one transaction     *)
(* (write_to_db, with its scope guard).                                    *)
(***************************************************************************)
EXTENDS Integers, Sequences, FiniteSets, TLC

\* ------------------------------------------------------------------ bounds
\* Records per file, in a run of one file and in a run of several files.
MaxRecs == 3
MaxRunRecs == 1
\* Files per run.
MaxFiles == 2
\* CLI.sanity_sample.
MaxSample == 1
\* CLI.sqls.len() in a run that reports.
MaxSqls == 1

\* main.rs:428  "if line_count > 10 { break; }"
ProbeCap == 10

\* ------------------------------------------------------------------ inputs
\* A record is the sequence of its fields (csv::StringRecord); the reader is
\* "flexible", so records of one file may differ in width.
Records == { <<"a">>, <<"a", "b">>, <<"b", "a">> }

FilesUpTo(m) == UNION { [1..n -> Records] : n \in 0..m }

Files == FilesUpTo(MaxRecs)

RunFiles == FilesUpTo(MaxRunRecs)

Tables == { "t", "u" }

Cfgs == [ headeron : BOOLEAN, ignore_field_count : BOOLEAN,
          overwrite_tables : BOOLEAN, sanity_sample : 0..MaxSample ]

\* ------------------------------------------------------------------- store
Field(p, n, ty) == [pos |-> p, name |-> n, db_type |-> ty]

Col(n, ty) == [name |-> n, db_type |-> ty]

NoTable == [exists |-> FALSE, cols |-> <<>>, rows |-> <<>>]

Text(s) == <<"text", s>>

Null == <<"null">>

TextCols(names) == [i \in 1..Len(names) |-> Col(names[i], "text")]

\* Column lists of tables a store may hold before the run: tables an earlier
\* run of the program has created (every column "text", named by a header or
\* f0, f1, ...) and a table of other origin with a column declared "int".
InitialCols ==
    { <<Col("a", "int"), Col("b", "text")>>,
      TextCols(<<"a", "b">>), TextCols(<<"a">>),
      TextCols(<<"f0", "f1">>), TextCols(<<"f0">>) }

OldRow(cols) == [k \in 1..Len(cols) |-> Text("x")]

\* Stores a run is started on: table u is absent, table t is absent or holds
\* one row.
InitialStores ==
    { [tn \in Tables |-> NoTable] } \cup
    { [tn \in Tables |->
          IF tn = "t"
          THEN [exists |-> TRUE, cols |-> c, rows |-> <<OldRow(c)>>]
          ELSE NoTable] : c \in InitialCols }

\* pragma table_info(t): one row (cid, name, type) per column, none when the
\* table does not exist.
TableInfo(t) ==
    [i \in 1..Len(t.cols) |-> Field(i - 1, t.cols[i].name, t.cols[i].db_type)]

\* The table dropped whether or not overwrite is requested.
SchemaCallDrops(c, d, tn, fault) ==
    IF fault = "prepare" \/ ~d[tn].exists
    THEN [ok |-> TRUE, fields |-> <<>>, db |-> d]
    ELSE IF fault = "step"
         THEN [ok |-> FALSE, fields |-> <<>>, db |-> d]
         ELSE [ok |-> TRUE, fields |-> <<>>, db |-> [d EXCEPT ![tn] = NoTable]]

\* Only the drop of an absent table swallowed.
SchemaCallStrict(c, d, tn, fault) ==
    IF c.overwrite_tables
    THEN IF ~d[tn].exists
         THEN [ok |-> TRUE, fields |-> <<>>, db |-> d]
         ELSE IF fault # "none"
              THEN [ok |-> FALSE, fields |-> <<>>, db |-> d]
              ELSE [ok |-> TRUE, fields |-> <<>>,
                    db |-> [d EXCEPT ![tn] = NoTable]]
    ELSE IF fault # "none"
         THEN [ok |-> FALSE, fields |-> <<>>, db |-> d]
         ELSE [ok |-> TRUE, fields |-> TableInfo(d[tn]), db |-> d]

\* The pragma whether or not overwrite is requested.
SchemaCallNeverDrops(c, d, tn, fault) ==
    IF fault # "none"
    THEN [ok |-> FALSE, fields |-> <<>>, db |-> d]
    ELSE [ok |-> TRUE, fields |-> TableInfo(d[tn]), db |-> d]

\* schema(): with overwrite the statement is "drop table", otherwise the pragma.
\* fault: "none", "prepare" (conn.prepare fails), "step" (query / rows.next fails).
\* "drop table" of an absent table fails in prepare.
SchemaCall(c, d, tn, fault) ==
    IF c.overwrite_tables
    THEN IF fault = "prepare" \/ ~d[tn].exists
         THEN [ok |-> TRUE, fields |-> <<>>, db |-> d]
         ELSE IF fault = "step"
              THEN [ok |-> FALSE, fields |-> <<>>, db |-> d]
              ELSE [ok |-> TRUE, fields |-> <<>>,
                    db |-> [d EXCEPT ![tn] = NoTable]]
    ELSE IF fault # "none"
         THEN [ok |-> FALSE, fields |-> <<>>, db |-> d]
         ELSE [ok |-> TRUE, fields |-> TableInfo(d[tn]), db |-> d]

\* The failures of schema()'s statement that differ in effect: "drop table" of
\* an absent table fails in prepare whatever else happens.
SchemaFaults(c, d, tn) ==
    IF c.overwrite_tables /\ ~d[tn].exists
    THEN {"none"}
    ELSE {"none", "prepare", "step"}

\* ------------------------------------------------------------------ probing
SanitySample(c) ==
    IF c.headeron THEN c.sanity_sample + 1 ELSE c.sanity_sample

HeaderFields(record) ==
    [i \in 1..Len(record) |-> Field(i - 1, record[i], "text")]

\* The names counted from one: f1, f2, ...
SynthFieldsFromOne(n) ==
    [i \in 1..n |-> Field(i - 1, "f" \o ToString(i), "text")]

SynthFields(n) ==
    [i \in 1..n |-> Field(i - 1, "f" \o ToString(i - 1), "text")]

\* The width test of a sampled record after the first (main.rs:423).
ProbeRejects(c, record, header_field_count) ==
    ~c.ignore_field_count \/ Len(record) # header_field_count

\* The "for record in rec_rdr.records()" loop; n is the number of records
\* consumed so far, badAt the record whose read fails (0: none).
RECURSIVE ProbeLoop(_, _, _, _, _, _)
ProbeLoop(c, f, badAt, n, sch, hfc) ==
    IF n = Len(f)
    THEN [err |-> "none", schema |-> sch, hfc |-> hfc, seen |-> n]
    ELSE IF badAt = n + 1
    THEN [err |-> "read", schema |-> sch, hfc |-> hfc, seen |-> n + 1]
    ELSE LET line_count == n + 1
             record == f[line_count]
         IN IF line_count = 1
            THEN LET s1 == IF c.headeron THEN sch \o HeaderFields(record) ELSE sch
                 IN IF line_count > ProbeCap
                    THEN [err |-> "none", schema |-> s1, hfc |-> Len(record),
                          seen |-> line_count]
                    ELSE ProbeLoop(c, f, badAt, line_count, s1, Len(record))
            ELSE IF line_count > SanitySample(c)
            THEN [err |-> "none", schema |-> sch, hfc |-> hfc, seen |-> n]
            ELSE IF ProbeRejects(c, record, hfc)
            THEN [err |-> "probe_width", schema |-> sch, hfc |-> hfc,
                  seen |-> line_count]
            ELSE IF line_count > ProbeCap
            THEN [err |-> "none", schema |-> sch, hfc |-> hfc, seen |-> line_count]
            ELSE ProbeLoop(c, f, badAt, line_count, sch, hfc)

\* The result without the test for a file that gave no record.
ProbeResultUnchecked(c, r) ==
    IF c.headeron
    THEN [err |-> "none", schema |-> r.schema, seen |-> r.seen]
    ELSE [err |-> "none", schema |-> r.schema \o SynthFields(r.hfc),
          seen |-> r.seen]

\* What detect_file_schema returns once the loop has ended without an error.
ProbeResult(c, r) ==
    IF c.headeron
    THEN IF r.hfc = 0
         THEN [err |-> "no_headers", schema |-> <<>>, seen |-> r.seen]
         ELSE [err |-> "none", schema |-> r.schema, seen |-> r.seen]
    ELSE IF r.hfc = 0
         THEN [err |-> "empty", schema |-> <<>>, seen |-> r.seen]
         ELSE [err |-> "none", schema |-> r.schema \o SynthFields(r.hfc),
               seen |-> r.seen]

DetectFileSchema(c, f, openOk, badAt) ==
    IF ~openOk
    THEN [err |-> "open", schema |-> <<>>, seen |-> 0]
    ELSE LET r == ProbeLoop(c, f, badAt, 0, <<>>, 0)
         IN IF r.err # "none"
            THEN [err |-> r.err, schema |-> <<>>, seen |-> r.seen]
            ELSE ProbeResult(c, r)

\* ----------------------------------------------------------- reconciliation
\* The comparison of load_file (main.rs:338-360): "none", or the first difference.
RECURSIVE ZipCompare(_, _, _)
ZipCompare(ts, fs, i) ==
    IF i > Len(ts) \/ i > Len(fs) THEN "none"
    ELSE IF ts[i].name # fs[i].name THEN "name"
    ELSE IF ts[i].db_type # fs[i].db_type THEN "type"
    ELSE ZipCompare(ts, fs, i + 1)

\* The count test with the flag inverted.
CountRejectsInverted(c, ts, fs) ==
    c.ignore_field_count /\ Len(ts) # Len(fs)

CountRejects(c, ts, fs) ==
    ~c.ignore_field_count /\ Len(ts) # Len(fs)

\* The tolerance flag switching off the whole comparison.
CompareLenient(c, ts, fs) ==
    IF c.ignore_field_count THEN "none"
    ELSE IF Len(ts) # Len(fs) THEN "count" ELSE ZipCompare(ts, fs, 1)

Compare(c, ts, fs) ==
    IF CountRejects(c, ts, fs) THEN "count" ELSE ZipCompare(ts, fs, 1)

Distinct(s) == \A i, j \in 1..Len(s) : s[i] = s[j] => i = j

\* create_table: all fields but the last, then the last one; the statement
\* fails when the table exists or two columns have one name.
CreateCols(f_sch) ==
    LET last == f_sch[Len(f_sch)]
    IN [i \in 1..(Len(f_sch) - 1) |-> Col(f_sch[i].name, f_sch[i].db_type)]
       \o <<Col(last.name, last.db_type)>>

CreateTable(d, tn, f_sch, fault) ==
    IF Len(f_sch) = 0
    THEN [ok |-> FALSE, err |-> "panic", db |-> d]
    ELSE IF fault \/ d[tn].exists
            \/ ~Distinct([i \in 1..Len(f_sch) |-> f_sch[i].name])
    THEN [ok |-> FALSE, err |-> "create", db |-> d]
    ELSE [ok |-> TRUE, err |-> "none",
          db |-> [d EXCEPT ![tn] = [exists |-> TRUE, cols |-> CreateCols(f_sch),
                                    rows |-> <<>>]]]

\* ------------------------------------------------------------------ loading
ColNames(t) == { t.cols[i].name : i \in 1..Len(t.cols) }

\* "insert into t ([n1], ...) values (?1, ...)" can be prepared when the table
\* exists and has every named column.
InsertPrepares(d, tn, f_sch) ==
    /\ d[tn].exists
    /\ \A i \in 1..Len(f_sch) : f_sch[i].name \in ColNames(d[tn])

\* The row the statement adds for a record: the bound value under each named
\* column, null under the others.
InsertedRow(t, f_sch, record) ==
    [k \in 1..Len(t.cols) |->
        IF \E i \in 1..Len(f_sch) : f_sch[i].name = t.cols[k].name
        THEN Text(record[CHOOSE i \in 1..Len(f_sch) :
                             /\ f_sch[i].name = t.cols[k].name
                             /\ \A j \in 1..Len(f_sch) :
                                   f_sch[j].name = t.cols[k].name => j <= i])
        ELSE Null]

\* The load-time width test (main.rs:552-556).
WidthRejects(c, record, f_sch) ==
    ~c.ignore_field_count /\ Len(record) # Len(f_sch)

\* stmt.execute(params_from_iter(&param_vec)): the statement has Len(f_sch)
\* parameters and is given one value per field of the record.
BindFails(record, f_sch) == Len(record) # Len(f_sch)

\* No line skipped.
SkipsHeaderNever(c, line_count) == FALSE

\* Whether line line_count is skipped as the header (main.rs:547).
SkipsHeader(c, line_count) == line_count = 1 /\ c.headeron

\* One field counted for each row.
FieldCountPerRow(fc, f_sch) == fc + 1

\* "field_count += f_sch.len() as u64" (main.rs:569).
FieldCountAfter(fc, f_sch) == fc + Len(f_sch)

\* A guard that never rolls back.
GuardNever(xc) == FALSE

\* A guard that rolls back on every exit.
GuardAlways(xc) == TRUE

\* The scope guard's test "if !x_complete.get()" (main.rs:533).
GuardFires(xc) == ~xc

\* conn.execute_batch("rollback;") in the guard: it fails when no transaction
\* is open on the connection (the store has ended it by itself).
RollbackOk(txn_open) == txn_open

\* The branch of load_file's "if table_schema.len() == 0" (main.rs:331).
TakesCreateAlways(ts) == TRUE

TakesCreate(ts) == Len(ts) = 0

\* The flag set before the commit is attempted.
XCompleteEarly(commit_ok) == TRUE

\* x_complete after "conn.execute_batch("commit;")?; x_complete.set(true);"
\* (main.rs:573-574): set only past a commit that did not fail.
XCompleteAfter(commit_ok) == commit_ok

\* The loop going on to the next file whatever load_file has returned.
AfterLoadFileAny(e) == "import"

\* The loop over the files left at once.
LoopDoneEarly(i, n) == TRUE

\* "for pathbuf in &CLI.files" (main.rs:262) has gone through the n files.
LoopDone(i, n) == i > n

\* import_csv's "load_file(..)?" (main.rs:263): where the run goes when
\* load_file has returned e.
AfterLoadFile(e) == IF e = "none" THEN "import" ELSE "failed"

\* ---------------------------------------------------------------- reporting
\* rusqlite::types::Value: Null and Text as in the store, and
Integer(v) == <<"integer", v>>

\* a real number w.f of one decimal digit f,
Real(w, f) == <<"real", w, f>>

\* and a blob, whose bytes are never printed.
Blob == <<"blob">>

Values == { Null, Integer(-3), Real(1, 5), Real(2, 0), Text("x"), Blob }

\* CLI.out_delimiter (default ",").
OutDelimiter == ","

\* val_append (main.rs:270-278): format!("{}", v) of an integer is its decimal
\* text, of a real its shortest decimal text (2.0 prints as "2").
ValAppend(s, val) ==
    CASE val[1] = "null"    -> s \o "NULL"
      [] val[1] = "integer" -> s \o ToString(val[2])
      [] val[1] = "text"    -> s \o val[2]
      [] val[1] = "blob"    -> s \o "..BLOB.."
      [] val[1] = "real"    -> IF val[3] = 0
                               THEN s \o ToString(val[2])
                               ELSE s \o ToString(val[2]) \o "." \o ToString(val[3])

\* The header line: every name but the last followed by the delimiter, then the
\* last name (main.rs:286-289).
RECURSIVE HeaderLine(_, _)
HeaderLine(names, i) ==
    IF i = Len(names) THEN names[i]
    ELSE names[i] \o OutDelimiter \o HeaderLine(names, i + 1)

\* The line of a row, built in sb (main.rs:294-303).
RECURSIVE RowLine(_, _, _)
RowLine(sb, row, i) ==
    IF i = Len(row) THEN ValAppend(sb, row[i])
    ELSE RowLine(ValAppend(sb, row[i]) \o OutDelimiter, row, i + 1)

\* What a post-load statement is answered with: the names of its result
\* columns, the rows it yields, and the failure it meets: "none", "prepare"
\* (conn.prepare fails), "query" (stmt.query fails), "next" (rows.next fails
\* after the rows).
Answer(names, rows, fault) == [names |-> names, rows |-> rows, fault |-> fault]

NameLists == { <<>>, <<"a">>, <<"a", "b">> }

\* The result sets of a statement with these columns: no row or one row; a
\* statement without result columns yields no row.
RowLists(names) ==
    IF Len(names) = 0 THEN { <<>> }
    ELSE { <<>> } \cup { <<r>> : r \in [1..Len(names) -> Values] }

Answers ==
    { Answer(<<>>, <<>>, "prepare") } \cup
    { Answer(n, <<>>, "query") : n \in NameLists } \cup
    UNION { { Answer(n, r, f) : r \in RowLists(n), f \in {"none", "next"} } :
            n \in NameLists }

\* One turn of "for sql in CLI.sqls.iter()" (main.rs:281-305).  With no result
\* column "stmt.column_count()-1" underflows: the subtraction panics, or wraps
\* and column_names()[0] panics; nothing has been printed by then.
RunSql(q) ==
    IF q.fault = "prepare" THEN [err |-> "post_prepare", lines |-> <<>>]
    ELSE IF Len(q.names) = 0 THEN [err |-> "panic", lines |-> <<>>]
    ELSE LET header == <<HeaderLine(q.names, 1)>>
             lines == [k \in 1..Len(q.rows) |-> RowLine("", q.rows[k], 1)]
         IN IF q.fault = "query" THEN [err |-> "post_query", lines |-> header]
            ELSE IF q.fault = "next"
            THEN [err |-> "post_next", lines |-> header \o lines]
            ELSE [err |-> "none", lines |-> header \o lines]

\* run_post_sqls: the statements in order, up to the first that fails.
RECURSIVE RunSqls(_, _, _)
RunSqls(qs, i, lines) ==
    IF i > Len(qs) THEN [err |-> "none", out |-> lines, ran |-> Len(qs)]
    ELSE LET r == RunSql(qs[i])
         IN IF r.err # "none"
            THEN [err |-> r.err, out |-> lines \o r.lines, ran |-> i]
            ELSE RunSqls(qs, i + 1, lines \o r.lines)

\* CLI.sqls of a run, as answered: the statements of a run that reports
SqlsUpTo(m) == UNION { [1..n -> Answers] : n \in 0..m }

PostSqls == SqlsUpTo(MaxSqls)

\* and of a run that loads files: none, or one statement of one column.
LoadSqls == { <<>>, <<Answer(<<"a">>, <<>>, "none")>> }

\* -------------------------------------------------------------------- state
VARIABLES
    cfg,          \* CLI
    nfiles,       \* CLI.files.len()
    idx,          \* position of import_csv's loop in CLI.files (1-based)
    pc,           \* where the run is
    file,         \* the records of the file being loaded
    tablename,    \* get_table_name of the file being loaded
    table_schema, \* load_file's table_schema
    file_schema,  \* load_file's file_schema
    db,           \* the store as the connection sees it
    committed,    \* the store as committed
    in_txn,       \* a transaction is open on the connection
    line_count,   \* write_to_db's line_count
    row_count,    \* write_to_db's row_count
    field_count,  \* write_to_db's field_count
    x_complete,   \* write_to_db's x_complete
    err,          \* the error load_file is returning ("none": no error)
    pre,          \* history: the store when load_file was called for this file
    wpre,         \* history: the store when write_to_db was called for this file
    sfault,       \* history: the failure met by schema()'s statement
    attempted,    \* history: the number of calls of load_file
    failed_at,    \* history: the position of the first file whose load failed (0: none)
    rollbacks,    \* history: the "rollback;" statements the guard has issued in the run
    rollback_failed, \* history: the guard's rollback has failed (and was logged)
    commits,      \* history: the "commit;" statements that have succeeded in the run
    branch,       \* history: the branch load_file has taken for this file
    dropped,      \* history: schema() has dropped the table for this file
    queries,      \* the post-load statements of the run, as the store answers them
    out,          \* the lines run_post_sqls has printed
    ran           \* the number of post-load statements run_post_sqls has prepared

vars == <<cfg, nfiles, idx, pc, file, tablename, table_schema, file_schema, db,
          committed, in_txn, line_count, row_count, field_count, x_complete,
          err, pre, wpre, sfault, attempted, failed_at, rollbacks,
          rollback_failed, commits, branch, dropped, queries, out, ran>>

guardlog == <<rollbacks, rollback_failed, commits>>

report == <<queries, out, ran>>

locals == <<line_count, row_count, field_count, x_complete>>

params == <<cfg, nfiles>>

InitWith(counts, stores) ==
    /\ cfg \in Cfgs
    /\ nfiles \in counts
    /\ db \in stores
    /\ idx = 1
    /\ pc = "import"
    /\ file = <<>>
    /\ tablename = ""
    /\ table_schema = <<>>
    /\ file_schema = <<>>
    /\ committed = db
    /\ in_txn = FALSE
    /\ line_count = 0
    /\ row_count = 0
    /\ field_count = 0
    /\ x_complete = FALSE
    /\ err = "none"
    /\ pre = db
    /\ wpre = db
    /\ sfault = "none"
    /\ attempted = 0
    /\ failed_at = 0
    /\ rollbacks = 0
    /\ rollback_failed = FALSE
    /\ commits = 0
    /\ branch = "none"
    /\ dropped = FALSE
    /\ queries = <<>>
    /\ out = <<>>
    /\ ran = 0

\* A run over one file.
Init == InitWith({1}, InitialStores)

\* A run over a list of up to MaxFiles files.
InitRun == InitWith(1..MaxFiles, InitialStores)

\* A run over no file, on an empty store: import_csv goes to run_post_sqls.
InitPost == InitWith({0}, { [tn \in Tables |-> NoTable] })

\* load_file returns e to import_csv's loop: on an error the run ends, otherwise
\* the loop goes on to the next file.
Return(e) ==
    /\ err' = e
    /\ pc' = AfterLoadFile(e)
    /\ idx' = IF AfterLoadFile(e) = "import" THEN idx + 1 ELSE idx
    /\ failed_at' = IF e # "none" /\ failed_at = 0 THEN idx ELSE failed_at

\* load_file goes on to its next step.
Goto(p) ==
    /\ pc' = p
    /\ err' = "none"
    /\ UNCHANGED <<idx, failed_at>>

\* import_csv's loop takes the next file; load_file resolves the table name and
\* calls schema() (main.rs:262-263, 313-321).
LoadFileSchema(pool) ==
    /\ pc = "import"
    /\ ~LoopDone(idx, nfiles)
    /\ \E f \in pool, tn \in Tables :
       \E fault \in SchemaFaults(cfg, db, tn) :
          LET r == SchemaCall(cfg, db, tn, fault)
          IN /\ file' = f
             /\ tablename' = tn
             /\ pre' = db
             /\ wpre' = db
             /\ sfault' = fault
             /\ db' = r.db
             /\ committed' = r.db
             /\ table_schema' = r.fields
             /\ dropped' = (db[tn].exists /\ ~r.db[tn].exists)
             /\ IF r.ok THEN Goto("detect") ELSE Return("schema")
    /\ attempted' = attempted + 1
    /\ file_schema' = <<>>
    /\ UNCHANGED <<params, in_txn, locals, guardlog, branch, report>>

\* load_file calls detect_file_schema (main.rs:324).
LoadFileDetect ==
    /\ pc = "detect"
    /\ \E openOk \in BOOLEAN, badAt \in 0..Len(file) :
          LET r == DetectFileSchema(cfg, file, openOk, badAt)
          IN /\ file_schema' = r.schema
             /\ IF r.err = "none" THEN Goto("reconcile") ELSE Return(r.err)
    /\ UNCHANGED <<params, file, tablename, table_schema, db, committed,
                   in_txn, locals, pre, wpre, sfault, attempted, guardlog,
                   branch, dropped, report>>

\* load_file creates the table or compares the schemas (main.rs:331-361).
LoadFileReconcile ==
    /\ pc = "reconcile"
    /\ IF TakesCreate(table_schema)
       THEN \E fault \in BOOLEAN :
               LET r == CreateTable(db, tablename, file_schema, fault)
               IN /\ db' = r.db
                  /\ committed' = r.db
                  /\ branch' = "create"
                  /\ IF r.ok THEN Goto("write") ELSE Return(r.err)
       ELSE LET e == Compare(cfg, table_schema, file_schema)
            IN /\ IF e = "none" THEN Goto("write") ELSE Return(e)
               /\ branch' = "validate"
               /\ UNCHANGED <<db, committed>>
    /\ UNCHANGED <<params, file, tablename, table_schema, file_schema,
                   in_txn, locals, pre, wpre, sfault, attempted, guardlog,
                   dropped, report>>

\* write_to_db up to "begin transaction" (main.rs:489-529): the file is opened
\* again, the insert statement prepared, the transaction begun.
WriteToDbBegin ==
    /\ pc = "write"
    /\ wpre' = db
    /\ \E fault \in {"none", "w_open", "w_prepare", "begin"} :
          LET e == IF fault = "w_open" THEN "w_open"
                   ELSE IF fault = "w_prepare"
                           \/ ~InsertPrepares(db, tablename, file_schema)
                        THEN "w_prepare"
                   ELSE fault
          IN /\ in_txn' = (e = "none")
             /\ IF e = "none" THEN Goto("loop") ELSE Return(e)
    /\ line_count' = 0
    /\ row_count' = 0
    /\ field_count' = 0
    /\ x_complete' = FALSE
    /\ UNCHANGED <<params, file, tablename, table_schema, file_schema,
                   db, committed, pre, sfault, attempted, guardlog, branch,
                   dropped, report>>

\* One turn of "while rec_rdr.read_record(&mut record)?" (main.rs:545-572).
\* fault: "none", "read" (the read fails), "insert" (the statement fails and the
\* transaction stays open), "insert_abort" (the statement fails and the store
\* has rolled the transaction back by itself).
WriteToDbRecord ==
    /\ pc = "loop"
    /\ line_count < Len(file)
    /\ \E fault \in {"none", "read", "insert", "insert_abort"} :
          LET lc == line_count + 1
              record == file[lc]
          IN IF fault = "read"
             THEN /\ err' = "w_read"
                  /\ pc' = "guard"
                  /\ UNCHANGED <<db, in_txn, line_count, row_count, field_count>>
             ELSE IF SkipsHeader(cfg, lc)
             THEN /\ fault = "none"
                  /\ line_count' = lc
                  /\ UNCHANGED <<db, in_txn, row_count, field_count, err, pc>>
             ELSE IF WidthRejects(cfg, record, file_schema)
             THEN /\ fault = "none"
                  /\ err' = "width"
                  /\ pc' = "guard"
                  /\ line_count' = lc
                  /\ UNCHANGED <<db, in_txn, row_count, field_count>>
             ELSE IF BindFails(record, file_schema)
             THEN /\ fault = "none"
                  /\ err' = "bind"
                  /\ pc' = "guard"
                  /\ line_count' = lc
                  /\ UNCHANGED <<db, in_txn, row_count, field_count>>
             ELSE IF fault # "none"
             THEN /\ err' = "insert"
                  /\ pc' = "guard"
                  /\ line_count' = lc
                  /\ db' = IF fault = "insert_abort" THEN committed ELSE db
                  /\ in_txn' = (fault # "insert_abort")
                  /\ UNCHANGED <<row_count, field_count>>
             ELSE /\ db' = [db EXCEPT ![tablename].rows =
                               Append(@, InsertedRow(db[tablename], file_schema,
                                                     record))]
                  /\ line_count' = lc
                  /\ row_count' = row_count + 1
                  /\ field_count' = FieldCountAfter(field_count, file_schema)
                  /\ UNCHANGED <<in_txn, err, pc>>
    /\ UNCHANGED <<params, idx, file, tablename, table_schema, file_schema,
                   committed, x_complete, pre, wpre, sfault, attempted,
                   failed_at, guardlog, branch, dropped, report>>

\* After the last record: "commit;" and x_complete.set(true) (main.rs:573-574).
\* fault: "none", "read" (read_record fails where the end of the file is
\* expected), "commit" (the commit fails and the transaction stays open),
\* "commit_abort" (the commit fails and the store has rolled back by itself).
WriteToDbCommit ==
    /\ pc = "loop"
    /\ line_count = Len(file)
    /\ \E fault \in {"none", "read", "commit", "commit_abort"} :
          /\ x_complete' = (fault # "read" /\ XCompleteAfter(fault = "none"))
          /\ IF fault = "none"
             THEN /\ committed' = db
                  /\ in_txn' = FALSE
                  /\ commits' = commits + 1
                  /\ UNCHANGED <<db, err>>
             ELSE /\ err' = IF fault = "read" THEN "w_read" ELSE "commit"
                  /\ db' = IF fault = "commit_abort" THEN committed ELSE db
                  /\ in_txn' = (fault # "commit_abort")
                  /\ UNCHANGED <<committed, commits>>
    /\ pc' = "guard"
    /\ UNCHANGED <<params, idx, file, tablename, table_schema, file_schema,
                   line_count, row_count, field_count, pre, wpre, sfault,
                   attempted, failed_at, rollbacks, rollback_failed, branch,
                   dropped, report>>

\* The scope guard runs as write_to_db returns (main.rs:532-539): a rollback
\* unless x_complete is set; a rollback with no transaction open fails and is
\* only logged.  Then load_file returns (main.rs:366-370).
WriteToDbGuard ==
    /\ pc = "guard"
    /\ IF GuardFires(x_complete)
       THEN /\ rollbacks' = rollbacks + 1
            /\ rollback_failed' = ~RollbackOk(in_txn)
            /\ IF RollbackOk(in_txn)
               THEN /\ db' = committed
                    /\ in_txn' = FALSE
               ELSE UNCHANGED <<db, in_txn>>
       ELSE UNCHANGED <<db, in_txn, rollbacks, rollback_failed>>
    /\ Return(err)
    /\ IF AfterLoadFile(err) = "import"
       THEN /\ file' = <<>>
            /\ tablename' = ""
            /\ table_schema' = <<>>
            /\ file_schema' = <<>>
            /\ line_count' = 0
            /\ row_count' = 0
            /\ field_count' = 0
            /\ x_complete' = FALSE
            /\ pre' = committed
            /\ wpre' = committed
            /\ sfault' = "none"
            /\ branch' = "none"
            /\ dropped' = FALSE
       ELSE UNCHANGED <<file, tablename, table_schema, file_schema,
                        locals, pre, wpre, sfault, branch, dropped>>
    /\ UNCHANGED <<params, committed, attempted, commits, report>>

\* Every file is loaded: run_post_sqls, then import_csv returns with its result
\* (main.rs:266-267, 280-309).
RunPostSqls(sqls) ==
    /\ pc = "import"
    /\ LoopDone(idx, nfiles)
    /\ \E qs \in sqls :
          LET r == RunSqls(qs, 1, <<>>)
          IN /\ queries' = qs
             /\ out' = r.out
             /\ ran' = r.ran
             /\ err' = r.err
    /\ pc' = "done"
    /\ UNCHANGED <<params, idx, file, tablename, table_schema, file_schema,
                   db, committed, in_txn, locals, pre, wpre, sfault,
                   attempted, failed_at, guardlog, branch, dropped>>

\* A step of a run whose files are taken from pool and whose post-load
\* statements from sqls.
Step(pool, sqls) ==
    \/ LoadFileSchema(pool)
    \/ LoadFileDetect
    \/ LoadFileReconcile
    \/ WriteToDbBegin
    \/ WriteToDbRecord
    \/ WriteToDbCommit
    \/ WriteToDbGuard
    \/ RunPostSqls(sqls)

Next == Step(Files, LoadSqls)

NextRun == Step(RunFiles, LoadSqls)

NextPost == RunPostSqls(PostSqls)

Spec == Init /\ [][Next]_vars

SpecRun == InitRun /\ [][NextRun]_vars

SpecPost == InitPost /\ [][NextPost]_vars

\* A file is being loaded (load_file has been called and the run has not gone
\* on to another file).
Loading == pc \notin {"import", "done"}

\* -------------------------------------------------------------- properties
\* The errors write_to_db returns after "begin transaction" has succeeded.
AfterBeginErrors == {"width", "bind", "insert", "w_read", "commit"}

\* C1: whenever write_to_db returns an error met after "begin transaction" (a
\* row-width error, a failed insert, a read error on any record, a failed
\* commit), the target table is as it was when write_to_db was called: the
\* same number of rows, the same rows, and none of the file's rows committed.
C1_Atomicity ==
    (pc = "failed" /\ err \in AfterBeginErrors) =>
        /\ Len(db[tablename].rows) = Len(wpre[tablename].rows)
        /\ db[tablename] = wpre[tablename]
        /\ committed[tablename] = wpre[tablename]

\* A failure injected on the last of N >= 2 records, after rows were inserted.
C1_Witness ==
    /\ pc = "failed"
    /\ err = "insert"
    /\ Len(file) >= 2
    /\ line_count = Len(file)
    /\ row_count >= 1

\* The run has ended: import_csv has returned.
Ended == pc \in {"failed", "done"}

\* C2 (as stated): when the run has ended, load_file has been called for every
\* file of the list, whatever the outcome of the earlier ones.
C2_AllFilesAttempted == Ended => attempted = nfiles

\* C2 (amended): once load_file has failed for a file, the run has ended with
\* that error and load_file has been called for the files up to that one only:
\* no file after the first failing one is ever attempted; when no load has
\* failed, the files attempted are those before the loop's position, and the
\* one at it while it is being loaded.
C2_StopsAtFirstFailure ==
    /\ failed_at # 0 =>
          /\ pc = "failed"
          /\ err # "none"
          /\ idx = failed_at
          /\ attempted = failed_at
    /\ failed_at = 0 =>
          /\ pc # "failed"
          /\ attempted = IF pc \in {"import", "done"} THEN idx - 1 ELSE idx
    /\ pc = "done" => attempted = nfiles

\* The first of two files has failed and the second was never attempted.
C2_Witness ==
    /\ pc = "failed"
    /\ nfiles = 2
    /\ failed_at = 1
    /\ attempted = 1

\* Some data record of f has a field count other than the width of the first
\* record, which is the length of the probed schema.
BadWidth(f) == \E k \in 2..Len(f) : Len(f[k]) # Len(f[1])

\* The file being loaded has such a record and field counts are policed.
PolicedBadFile == Loading /\ ~cfg.ignore_field_count /\ BadWidth(file)

\* C3 (as stated): with field-count policing, after load_file has returned for
\* a file with a record of another width, the target table is exactly as it was
\* before load_file was called: same existence, same columns, same rows.
C3_PreLoadState ==
    (PolicedBadFile /\ pc = "failed") => db[tablename] = pre[tablename]

\* C3 (amended): with field-count policing, the load of a file with a record of
\* another width never commits, and after load_file has returned no transaction
\* is open, nothing uncommitted is left, and the target table is exactly as
\* before the call when it existed and overwrite was not requested; when it did
\* not exist or overwrite was requested it is as before the call, or absent, or
\* has the probed schema's columns and no row.
C3_NeverCommits ==
    PolicedBadFile =>
        /\ ~x_complete
        /\ pc = "failed" =>
              /\ ~in_txn
              /\ db = committed
              /\ IF pre[tablename].exists /\ ~cfg.overwrite_tables
                 THEN db[tablename] = pre[tablename]
                 ELSE \/ db[tablename] = pre[tablename]
                      \/ db[tablename] = NoTable
                      \/ /\ db[tablename].exists
                         /\ db[tablename].cols = CreateCols(file_schema)
                         /\ db[tablename].rows = <<>>

\* A policed load of an existing table has inserted rows and then failed on the
\* width of a later record.
C3_Witness ==
    /\ PolicedBadFile
    /\ pc = "failed"
    /\ err = "width"
    /\ row_count >= 1
    /\ pre[tablename].exists
    /\ ~cfg.overwrite_tables

\* A file after the first has failed; pre holds what the earlier files of the
\* run have committed.
LaterFileFailed == pc = "failed" /\ idx > 1

\* C4 (as stated): when a later file of the run has failed, at whatever step,
\* with or without overwrite, with the same or another target table, the rows
\* the earlier files have committed are still in the store.
C4_EarlierRowsKept ==
    LaterFileFailed =>
        \A tn \in Tables : /\ committed[tn].rows = pre[tn].rows
                           /\ db[tn].rows = pre[tn].rows

\* C4 (amended): when a later file of the run has failed, the rows the earlier
\* files have committed are still in the store, in every table other than the
\* failed file's target and, when overwrite is not requested, in its target
\* too (with overwrite the later file's drop removes its target's rows before
\* the file is probed).
C4_EarlierRowsKeptUnlessDropped ==
    LaterFileFailed =>
        \A tn \in Tables :
            (tn # tablename \/ ~cfg.overwrite_tables) =>
                /\ committed[tn].rows = pre[tn].rows
                /\ db[tn].rows = pre[tn].rows

\* The second file has failed in its transaction, after an insert, on the table
\* the first file created and filled.
C4_Witness ==
    /\ LaterFileFailed
    /\ tablename = "u"
    /\ ~cfg.overwrite_tables
    /\ Len(pre["u"].rows) >= 1
    /\ err \in AfterBeginErrors
    /\ row_count >= 1

Min(a, b) == IF a <= b THEN a ELSE b

\* The records after the first that probing compares with the reference width.
Sampled(c, f) == 2..Min(Len(f), SanitySample(c))

SampledDiffers(c, f) == \E k \in Sampled(c, f) : Len(f[k]) # Len(f[1])

\* C5 (as stated): probing fails with the field-count inconsistency only when
\* a sampled record after the first differs in width from the first and
\* ignore_field_count is not set, and it does not pass over such a record.
C5_ProbeWidthIff ==
    /\ (pc = "failed" /\ err = "probe_width") =>
          ~cfg.ignore_field_count /\ SampledDiffers(cfg, file)
    /\ pc = "reconcile" =>
          ~(~cfg.ignore_field_count /\ SampledDiffers(cfg, file))

\* C6 (as stated, its last sentence): with sample_size = 0 and policing
\* enabled, a file that has passed probing has no record, however deep, whose
\* width differs from the first record's.
C6_ZeroSamplesWholeFile ==
    (pc = "reconcile" /\ cfg.sanity_sample = 0 /\ ~cfg.ignore_field_count) =>
        ~BadWidth(file)

\* No table has been created and no transaction begun for the file.
NothingStarted ==
    /\ ~in_txn
    /\ db[tablename].exists => pre[tablename].exists

\* C7 (as stated): probing fails, no table is created and no transaction is
\* begun, when the file is empty and when header_present is set and the file
\* holds the header record only.
C7_ZeroUsableFails ==
    (/\ Loading
     /\ pc # "detect"
     /\ Len(file) = 0 \/ (cfg.headeron /\ Len(file) = 1)) =>
        /\ pc = "failed"
        /\ err \in {"schema", "open", "read", "empty", "no_headers"}
        /\ NothingStarted

\* C7 (amended): probing fails, no table is created and no transaction is
\* begun, when the file has no record at all, with header_present set or not;
\* a file that holds the header record only, with header_present set, never
\* fails for want of records: once read, it is probed to the header's schema.
C7_EmptyFileFails ==
    /\ (Loading /\ pc # "detect" /\ Len(file) = 0) =>
          /\ pc = "failed"
          /\ err \in {"schema", "open",
                      IF cfg.headeron THEN "no_headers" ELSE "empty"}
          /\ NothingStarted
    /\ (Loading /\ pc # "detect" /\ cfg.headeron /\ Len(file) = 1) =>
          /\ err \notin {"empty", "no_headers", "probe_width"}
          /\ err \notin {"schema", "open", "read"} =>
                file_schema = HeaderFields(file[1])

\* An empty file read with header_present has failed in probing.
C7_Witness ==
    /\ pc = "failed"
    /\ cfg.headeron
    /\ Len(file) = 0
    /\ err = "no_headers"
    /\ sfault = "none"

\* The store schema and the probed schema differ in name or declared type at a
\* position both have.
PosMismatch(ts, fs) ==
    \E i \in 1..Min(Len(ts), Len(fs)) :
        ts[i].name # fs[i].name \/ ts[i].db_type # fs[i].db_type

\* The file has been probed and its target table existed and was not to be
\* overwritten.
Validating ==
    /\ Loading
    /\ pre[tablename].exists
    /\ ~cfg.overwrite_tables
    /\ file_schema # <<>>

\* load_file is at or has failed in reconciliation: no transaction was begun
\* and the store is as it was before the call.
RejectedBeforeLoading(kinds) ==
    /\ pc \in {"reconcile", "failed"}
    /\ pc = "failed" => err \in kinds
    /\ ~in_txn
    /\ db = pre
    /\ committed = pre

\* C8: when the table exists, overwrite is not requested and the store schema
\* and the probed schema differ in name or type at a shared position, load_file
\* fails in reconciliation, before any transaction, and inserts nothing; with
\* ignore_field_count set it fails on the name or the type all the same.
C8_PositionalNeverOverridable ==
    (Validating /\ PosMismatch(TableInfo(pre[tablename]), file_schema)) =>
        /\ RejectedBeforeLoading({"count", "name", "type"})
        /\ cfg.ignore_field_count => err # "count"

\* Rejected on a name, with the tolerance flag set, although the two schemas
\* have the same names in another order.
C8_Witness ==
    /\ Validating
    /\ pc = "failed"
    /\ err = "name"
    /\ cfg.ignore_field_count
    /\ Len(file_schema) = 2
    /\ { file_schema[i].name : i \in 1..Len(file_schema) } = ColNames(pre[tablename])

\* C9: when the table exists and the store schema and the probed schema differ
\* in length, load_file fails with the field-count error and inserts nothing if
\* ignore_field_count is not set; if it is set, load_file does not fail on the
\* count, and fails in reconciliation exactly when a name or a type differs at
\* a shared position.
C9_FieldCountReconciliation ==
    (Validating /\ Len(pre[tablename].cols) # Len(file_schema)) =>
        IF ~cfg.ignore_field_count
        THEN RejectedBeforeLoading({"count"})
        ELSE /\ err # "count"
             /\ IF PosMismatch(TableInfo(pre[tablename]), file_schema)
                THEN RejectedBeforeLoading({"name", "type"})
                ELSE err \notin {"name", "type"}

\* The count difference alone has been tolerated: with the flag set, a file of
\* fewer columns than the table is past reconciliation and in its transaction.
C9_Witness ==
    /\ Validating
    /\ cfg.ignore_field_count
    /\ Len(pre[tablename].cols) # Len(file_schema)
    /\ pc = "loop"
    /\ row_count >= 1

\* The drop statement of schema() has failed in prepare: the table is absent,
\* or prepare has failed for another reason.
DropPrepareFailed == sfault = "prepare" \/ ~pre[tablename].exists

\* C10 (as stated): with overwrite, no failure of the drop step, in preparing
\* or in executing it, is propagated: schema() returns an empty schema.
C10_EveryDropFailureSwallowed ==
    (Loading /\ cfg.overwrite_tables /\ (sfault # "none" \/ DropPrepareFailed)) =>
        /\ err # "schema"
        /\ table_schema = <<>>

\* C10 (amended): with overwrite, a failure of preparing the drop statement, for
\* any reason (table absent or other), is not propagated: schema() leaves the
\* store as it is and returns an empty schema, and load_file goes on to probing
\* and the Create branch, never to the comparison; a failure in executing the
\* prepared drop is propagated and load_file fails with the store unchanged.
C10_DropPrepareFailureSwallowed ==
    (Loading /\ cfg.overwrite_tables) =>
        /\ table_schema = <<>>
        /\ err \notin {"count", "name", "type"}
        /\ DropPrepareFailed =>
              /\ err # "schema"
              /\ pc \in {"detect", "reconcile"} => db = pre
        /\ (sfault = "step" /\ pre[tablename].exists) =>
              /\ pc = "failed"
              /\ err = "schema"
              /\ db = pre

\* The drop of an existing table has failed in prepare and was swallowed;
\* load_file has taken the Create branch, where "create table" has failed.
C10_Witness ==
    /\ Loading
    /\ cfg.overwrite_tables
    /\ sfault = "prepare"
    /\ pre[tablename].exists
    /\ pc = "failed"
    /\ err = "create"

\* C11: in write_to_db, once "begin transaction" has succeeded, exactly one
\* of a successful commit and a rollback by the guard happens on every exit: the
\* guard issues one rollback on every exit where the commit has not succeeded
\* and none after a successful commit; when the guard's own rollback fails the
\* error returned is still the one that ended the load; and no transaction is
\* open once write_to_db has returned.
C11_GuardProtocol ==
    /\ rollbacks = IF pc = "failed" /\ err \in AfterBeginErrors THEN 1 ELSE 0
    /\ commits = IF pc = "guard" /\ x_complete THEN idx ELSE idx - 1
    /\ (pc = "guard" /\ x_complete) => (~in_txn /\ err = "none")
    /\ (pc = "guard" /\ ~x_complete) => err \in AfterBeginErrors
    /\ pc \in {"import", "failed", "done"} => (~in_txn /\ db = committed)
    /\ rollback_failed =>
          /\ pc = "failed"
          /\ err \in {"insert", "commit"}
          /\ rollbacks = 1

\* The commit has failed after an insert, the store had ended the transaction
\* by itself, the guard's rollback has failed, and the commit's error is returned.
C11_Witness ==
    /\ pc = "failed"
    /\ err = "commit"
    /\ rollback_failed
    /\ rollbacks = 1
    /\ row_count >= 1

\* write_to_db is returning Ok((row_count, field_count)).
ReturnsOutcome == pc = "guard" /\ err = "none"

\* The data records of a file: all its records but the header.
DataCount(c, f) == IF c.headeron THEN Len(f) - 1 ELSE Len(f)

\* C12: write_to_db returns (rows_written, fields_written) only after the
\* commit has succeeded; rows_written is then the number of data records of the
\* file (all but the header when header_present) and the number of rows added
\* to the table, and fields_written = rows_written * Schema.len().
C12_LoadOutcome ==
    ReturnsOutcome =>
        /\ x_complete
        /\ ~in_txn
        /\ committed = db
        /\ row_count = DataCount(cfg, file)
        /\ row_count = Len(committed[tablename].rows) - Len(wpre[tablename].rows)
        /\ field_count = row_count * Len(file_schema)

\* A header a,b and two data rows: rows_written = 2, fields_written = 4.
C12_Witness ==
    /\ ReturnsOutcome
    /\ cfg.headeron
    /\ Len(file) = 3
    /\ Len(file_schema) = 2
    /\ row_count = 2
    /\ field_count = 4

\* The rows the table has gained since write_to_db was called.
Added ==
    SubSeq(db[tablename].rows, Len(wpre[tablename].rows) + 1,
           Len(db[tablename].rows))

\* The rows of the data records among the first n records of the file, in file
\* order: the first record left out when header_present is set.
DataRows(n) ==
    LET skip == IF cfg.headeron THEN 1 ELSE 0
    IN [k \in 1..(n - skip) |->
           InsertedRow(db[tablename], file_schema, file[k + skip])]

\* C13: with header_present set the first record of the file is never inserted
\* as a row, whatever the sample size and ignore_field_count; while the file is
\* loaded the rows added are those of the other records read so far, and when
\* the load has succeeded every record but the header has been inserted exactly
\* once, in file order, after the rows the table had.
C13_HeaderExclusion ==
    (pc = "loop" \/ ReturnsOutcome) =>
        /\ Len(db[tablename].rows) >= Len(wpre[tablename].rows)
        /\ SubSeq(db[tablename].rows, 1, Len(wpre[tablename].rows))
              = wpre[tablename].rows
        /\ Added = DataRows(line_count)
        /\ ReturnsOutcome => line_count = Len(file)

\* A header b,a followed by two records a,b has been loaded with one record
\* sampled: two rows added, the header's values not among them.
C13_Witness ==
    /\ ReturnsOutcome
    /\ cfg.headeron
    /\ cfg.sanity_sample = 1
    /\ file = << <<"b", "a">>, <<"a", "b">>, <<"a", "b">> >>
    /\ Len(Added) = 2

\* The file has been probed, its target table existed with exactly the probed
\* schema, and overwrite is not requested.
Reloading == Validating /\ TableInfo(pre[tablename]) = file_schema

\* C14: loading a file into an existing table whose schema is the probed
\* schema, overwrite not requested, takes the Validate branch and passes it, is
\* never rejected for a record's width when the file is well-formed, issues no
\* drop and no create (the table keeps its columns and its rows), and on
\* success leaves the table with its previous rows followed by exactly the
\* file's data rows: row count after = row count before + rows_written.
C14_ReloadAppends ==
    Reloading =>
        /\ branch \in {"none", "validate"}
        /\ pc # "reconcile" => branch = "validate"
        /\ ~dropped
        /\ err \notin {"create", "panic", "count", "name", "type"}
        /\ ~BadWidth(file) => err \notin {"width", "bind"}
        /\ db[tablename].exists
        /\ db[tablename].cols = pre[tablename].cols
        /\ committed[tablename].cols = pre[tablename].cols
        /\ SubSeq(db[tablename].rows, 1, Len(pre[tablename].rows))
              = pre[tablename].rows
        /\ ReturnsOutcome =>
              /\ wpre = pre
              /\ committed[tablename].rows = pre[tablename].rows \o DataRows(Len(file))
              /\ Len(committed[tablename].rows)
                    = Len(pre[tablename].rows) + row_count

\* A header a,b and two data rows reloaded into the table a,b that held one
\* row: validated, two rows appended, three rows in the table.
C14_Witness ==
    /\ Reloading
    /\ ReturnsOutcome
    /\ branch = "validate"
    /\ cfg.headeron
    /\ row_count = 2
    /\ Len(pre[tablename].rows) = 1
    /\ Len(committed[tablename].rows) = 3

\* The table a load of the file being loaded makes from nothing: the probed
\* columns and the file's data rows.
TableOfFile ==
    [exists |-> TRUE, cols |-> CreateCols(file_schema),
     rows |-> DataRows(Len(file))]

\* C15: with overwrite requested load_file never takes the Validate branch; a
\* successful load has dropped the table when it existed and has taken the
\* Create branch; and the table a successful load leaves, into a table that did
\* not exist or with overwrite, holds the file's data rows only, so that
\* loading the same file again with overwrite leaves the same row count as
\* the first load (rows are replaced, not appended).
C15_OverwriteReplaces ==
    /\ (Loading /\ cfg.overwrite_tables) => branch \in {"none", "create"}
    /\ (ReturnsOutcome /\ (cfg.overwrite_tables \/ ~pre[tablename].exists)) =>
          /\ branch = "create"
          /\ dropped = pre[tablename].exists
          /\ committed[tablename] = TableOfFile
          /\ Len(committed[tablename].rows) = DataCount(cfg, file)

\* The second file of a run with overwrite has been loaded into table u, which
\* the first file had created and filled: the table was dropped and created
\* again, and is as the first load had left it.
C15_Witness ==
    /\ ReturnsOutcome
    /\ cfg.overwrite_tables
    /\ idx = 2
    /\ tablename = "u"
    /\ dropped
    /\ branch = "create"
    /\ Len(pre["u"].rows) >= 1
    /\ committed["u"] = pre["u"]

\* C16 (as stated): with ignore_field_count set, a file with a data record
\* whose field count differs from the header's (the probed schema's) is never
\* rejected for a record's field count, neither in probing nor in loading.
C16_ToleranceImports ==
    (Loading /\ cfg.ignore_field_count /\ BadWidth(file)) =>
        err \notin {"probe_width", "width", "bind"}

\* The lines the report of the first n statements has: for each statement one
\* header line and one line for each row.
RECURSIVE ReportLength(_, _)
ReportLength(qs, n) ==
    IF n = 0 THEN 0 ELSE ReportLength(qs, n - 1) + 1 + Len(qs[n].rows)

\* No statement of the run has met a failure of the store.
NoSqlFault == \A i \in 1..Len(queries) : queries[i].fault = "none"

\* C17 (as stated): run_post_sqls does not fail for any result shape, any
\* number of columns, zero included, and any number of rows: when the store
\* fails no statement, every statement is run and reported with one header
\* line and one line for each row, and run_post_sqls returns without error.
C17_EmitsEveryShape ==
    (pc = "done" /\ NoSqlFault) =>
        /\ err = "none"
        /\ ran = Len(queries)
        /\ Len(out) = ReportLength(queries, Len(queries))

\* detect_file_schema has returned a schema for the file being loaded.
Probed ==
    /\ Loading
    /\ pc # "detect"
    /\ err \notin {"schema", "open", "read", "probe_width", "no_headers", "empty"}

C19_SchemaNonEmpty ==
    /\ err # "panic"
    /\ pc \in {"reconcile", "write", "loop", "guard"} => Len(file_schema) >= 1
    /\ (Loading /\ branch = "create") =>
          /\ Len(file_schema) >= 1
          /\ (db[tablename].exists /\ ~pre[tablename].exists) =>
                Len(db[tablename].cols) >= 1

\* The table has been created from a schema of exactly one field.
C19_Witness ==
    /\ pc = "write"
    /\ branch = "create"
    /\ Len(file_schema) = 1
    /\ ~pre[tablename].exists
    /\ db[tablename].exists
    /\ Len(db[tablename].cols) = 1

\* C20: the files are loaded one after another in the order of the list; when
\* import_csv takes the next file, or goes on to the post-load statements, the
\* transaction of every earlier file has been committed and none is open; the
\* post-load statements are run only when every file of the list has been
\* loaded successfully; when a load has failed none is run.
C20_RunOrdering ==
    /\ attempted = IF pc \in {"import", "done"} THEN idx - 1 ELSE idx
    /\ pc = "import" =>
          /\ ~in_txn
          /\ db = committed
          /\ commits = idx - 1
          /\ rollbacks = 0
    /\ (ran > 0 \/ queries # <<>> \/ out # <<>>) => pc = "done"
    /\ pc = "done" =>
          /\ failed_at = 0
          /\ attempted = nfiles
          /\ commits = nfiles
    /\ pc = "failed" =>
          /\ failed_at = idx
          /\ ran = 0
          /\ out = <<>>

\* Two files have been loaded and committed, and then a post-load statement
\* has been run.
C20_Witness ==
    /\ pc = "done"
    /\ nfiles = 2
    /\ commits = 2
    /\ ran = 1
    /\ Len(out) = 1

====
